---- MODULE Spec2Model ----
(***************************************************************************)
(* Pan/zoom stack group of the plot view (PlotPanZoomStackGroup) and the   *)
(* leaf stack it is built from (PlotPanZoomStack).                         *)
(*                                                                         *)
(* A JavaScript array is a sequence; JavaScript index k is position k + 1. *)
(* A pan-zoom state is a record [origin, dimensions] of two arrays.        *)
(* A stack is a non-empty sequence of states, position 1 being the base.   *)
(* The group's `stacks` array is a function from 0 .. count - 1 to stacks. *)
(***************************************************************************)
EXTENDS Integers, Sequences, FiniteSets, TLC

----------------------------------------------------------------------------
(* Bounds of the model *)

\* largest group size constructed
MaxCount == 2

\* pushes are issued only while the depth is below this
MaxDepth == 3

\* origin coordinates passed by callers are 0 .. MaxVal
MaxVal == 1

\* dimension extents passed by callers are 1 .. MaxDim
MaxDim == 1

\* telemetry subscriptions a FixedController creates in one run
MaxSubscriptions == 3

\* telemetry objects in a loaded composition
MaxObjects == 2

\* composition loads in flight at once
MaxPending == 2

----------------------------------------------------------------------------
(* JavaScript values *)

\* the value of an array read past its end (not a number)
Undefined == -1

\* arr[k] in JavaScript
At(arr, k) == IF k < Len(arr) THEN arr[k + 1] ELSE Undefined

\* the arrays callers pass as origin and as dimensions
Origins == {<<x, y>> : x \in 0..MaxVal, y \in 0..MaxVal}
Dimensions == {<<w, h>> : w \in 1..MaxDim, h \in 1..MaxDim}

----------------------------------------------------------------------------
(* PlotPanZoomStack: one stack of pan-zoom states *)

PanZoomState(origin, dimensions) == [origin |-> origin, dimensions |-> dimensions]

\* new PlotPanZoomStack(origin, dimensions): a single base state
PlotPanZoomStack(origin, dimensions) == <<PanZoomState(origin, dimensions)>>

Stack_getDepth(stack) == Len(stack)

Stack_getPanZoom(stack) == stack[Len(stack)]

Stack_getOrigin(stack) == Stack_getPanZoom(stack).origin

Stack_getDimensions(stack) == Stack_getPanZoom(stack).dimensions

Stack_pushPanZoom(stack, origin, dimensions) ==
    Append(stack, PanZoomState(origin, dimensions))

Stack_popPanZoom(stack) ==
    IF Len(stack) > 1 THEN SubSeq(stack, 1, Len(stack) - 1) ELSE stack

Stack_setBasePanZoom(stack, origin, dimensions) ==
    [stack EXCEPT ![1] = PanZoomState(origin, dimensions)]

Stack_clearPanZoom(stack) == <<stack[1]>>

----------------------------------------------------------------------------
(* PlotPanZoomStackGroup: the group-wide operations, as functions of the   *)
(* `stacks` array                                                          *)

\* stacks.forEach(...) of pushPanZoom, mutated: only the originating stack
\* is pushed
pushPanZoom_originOnly(stks, origin, dimensions, index) ==
    [i \in DOMAIN stks |->
        IF i = index
        THEN Stack_pushPanZoom(stks[i], origin, dimensions)
        ELSE stks[i]]

\* pushPanZoom, mutated: the other stacks repeat their own domain bounds
pushPanZoom_keepDomain(stks, origin, dimensions, index) ==
    [i \in DOMAIN stks |->
        IF i = index
        THEN Stack_pushPanZoom(stks[i], origin, dimensions)
        ELSE Stack_pushPanZoom(stks[i],
                <<At(Stack_getOrigin(stks[i]), 0), At(Stack_getOrigin(stks[i]), 1)>>,
                <<At(Stack_getDimensions(stks[i]), 0),
                  At(Stack_getDimensions(stks[i]), 1)>>)]

\* pushPanZoom, mutated: every stack does the normal push
pushPanZoom_allNormal(stks, origin, dimensions, index) ==
    [i \in DOMAIN stks |-> Stack_pushPanZoom(stks[i], origin, dimensions)]

\* pushPanZoom, mutated: no stack does the normal push
pushPanZoom_noneNormal(stks, origin, dimensions, index) ==
    [i \in DOMAIN stks |->
        Stack_pushPanZoom(stks[i],
            <<At(origin, 0), At(Stack_getOrigin(stks[i]), 1)>>,
            <<At(dimensions, 0), At(Stack_getDimensions(stks[i]), 1)>>)]

\* pushPanZoom, mutated: the other stacks have their top replaced
pushPanZoom_replaceTop(stks, origin, dimensions, index) ==
    [i \in DOMAIN stks |->
        IF i = index
        THEN Stack_pushPanZoom(stks[i], origin, dimensions)
        ELSE Stack_pushPanZoom(
                SubSeq(stks[i], 1, Len(stks[i]) - 1),
                <<At(origin, 0), At(Stack_getOrigin(stks[i]), 1)>>,
                <<At(dimensions, 0), At(Stack_getDimensions(stks[i]), 1)>>)]

pushPanZoom(stks, origin, dimensions, index) ==
    [i \in DOMAIN stks |->
        IF i = index
        THEN Stack_pushPanZoom(stks[i], origin, dimensions)
        ELSE Stack_pushPanZoom(stks[i],
                <<At(origin, 0), At(Stack_getOrigin(stks[i]), 1)>>,
                <<At(dimensions, 0), At(Stack_getDimensions(stks[i]), 1)>>)]

\* popPanZoom, mutated: the top is removed without the stack's own check
popPanZoom_unguarded(stks) ==
    [i \in DOMAIN stks |-> SubSeq(stks[i], 1, Len(stks[i]) - 1)]

\* popPanZoom, mutated: pops down to the base
popPanZoom_toBase(stks) ==
    [i \in DOMAIN stks |-> Stack_clearPanZoom(stks[i])]

popPanZoom(stks) ==
    [i \in DOMAIN stks |-> Stack_popPanZoom(stks[i])]

\* setBasePanZoom, mutated: split by axis the way a push is
setBasePanZoom_split(stks, origin, dimensions) ==
    [i \in DOMAIN stks |->
        IF i = 0
        THEN Stack_setBasePanZoom(stks[i], origin, dimensions)
        ELSE Stack_setBasePanZoom(stks[i],
                <<At(origin, 0), At(stks[i][1].origin, 1)>>,
                <<At(dimensions, 0), At(stks[i][1].dimensions, 1)>>)]

\* setBasePanZoom, mutated: the pushed states are dropped as well
setBasePanZoom_reset(stks, origin, dimensions) ==
    [i \in DOMAIN stks |->
        Stack_setBasePanZoom(Stack_clearPanZoom(stks[i]), origin, dimensions)]

\* setBasePanZoom, mutated: the current (top) state is replaced, not the base
setBasePanZoom_top(stks, origin, dimensions) ==
    [i \in DOMAIN stks |->
        [stks[i] EXCEPT ![Len(stks[i])] = PanZoomState(origin, dimensions)]]

\* setBasePanZoom, mutated: only the first stack's base is set
setBasePanZoom_firstOnly(stks, origin, dimensions) ==
    [i \in DOMAIN stks |->
        IF i = 0 THEN Stack_setBasePanZoom(stks[i], origin, dimensions) ELSE stks[i]]

\* setBasePanZoom, mutated: the first stack is skipped
setBasePanZoom_skipFirst(stks, origin, dimensions) ==
    [i \in DOMAIN stks |->
        IF i = 0 THEN stks[i] ELSE Stack_setBasePanZoom(stks[i], origin, dimensions)]

setBasePanZoom(stks, origin, dimensions) ==
    [i \in DOMAIN stks |-> Stack_setBasePanZoom(stks[i], origin, dimensions)]

\* clearPanZoom, mutated: every stack is replaced by a fresh one
clearPanZoom_fresh(stks) ==
    [i \in DOMAIN stks |-> PlotPanZoomStack(<<>>, <<>>)]

\* clearPanZoom, mutated: the current (top) state is kept, not the base
clearPanZoom_keepTop(stks) ==
    [i \in DOMAIN stks |-> <<Stack_getPanZoom(stks[i])>>]

\* clearPanZoom, mutated: a single pop
clearPanZoom_onePop(stks) ==
    [i \in DOMAIN stks |-> Stack_popPanZoom(stks[i])]

clearPanZoom(stks) ==
    [i \in DOMAIN stks |-> Stack_clearPanZoom(stks[i])]

----------------------------------------------------------------------------
(* Construction *)

\* the construction loop, mutated: one stack too many
Construct_offByOne(stks, n) ==
    [i \in 0..n |-> PlotPanZoomStack(<<>>, <<>>)]

\* while (stacks.length < count) stacks.push(new PlotPanZoomStack([], []))
RECURSIVE Construct(_, _)
Construct(stks, n) ==
    IF Cardinality(DOMAIN stks) < n
    THEN Construct(
            [i \in DOMAIN stks \cup {Cardinality(DOMAIN stks)} |->
                IF i \in DOMAIN stks THEN stks[i] ELSE PlotPanZoomStack(<<>>, <<>>)],
            n)
    ELSE stks

\* var stacks = []
EmptyArray == [i \in {} |-> PlotPanZoomStack(<<>>, <<>>)]

----------------------------------------------------------------------------
(* State *)

VARIABLES
    count,     \* the constructor's argument
    stacks,    \* the group's stacks
    last,      \* the call that produced this state
    prev,      \* the call before it
    pre,       \* `stacks` as it was when the last call began
    returned,  \* how the last call ended
    run        \* the forEach in progress, if any

\* FixedController
VARIABLES
    subscriptions,     \* the controller's list of unsubscribe functions
    created,           \* unsubscribe functions 1 .. created have been handed out
    unsubscribeCalls,  \* how often each unsubscribe function was invoked
    pending,           \* composition loads whose promise has not resolved
    destroyed          \* the scope's $destroy event has been delivered

fixedVars == <<subscriptions, created, unsubscribeCalls, pending, destroyed>>

vars == <<count, stacks, last, prev, pre, returned, run,
          subscriptions, created, unsubscribeCalls, pending, destroyed>>

\* the group's getDepth, mutated: an empty group reports the floor depth
getDepth_floor == IF count > 0 THEN Stack_getDepth(stacks[0]) ELSE 1

\* the group's getDepth
getDepth == IF count > 0 THEN Stack_getDepth(stacks[0]) ELSE 0

\* decorateStack(stack, index): an object whose prototype is stacks[proto]
\* and whose pushPanZoom closes over index
decorateStack(proto, index) == [proto |-> proto, index |-> index]

\* undefined, where a wrapper is expected
NoWrapper == [proto |-> Undefined, index |-> Undefined]

\* decoratedStacks, mutated: every wrapper is made over the first stack
decoratedStacks_first == [i \in 0..(count - 1) |-> decorateStack(0, i)]

\* decoratedStacks = stacks.map(decorateStack)
decoratedStacks == [i \in 0..(count - 1) |-> decorateStack(i, i)]

\* getPanZoomStack, mutated: the index is clamped into range
getPanZoomStack_clamped(index) ==
    IF count = 0 THEN NoWrapper
    ELSE IF index < 0 THEN decoratedStacks[0]
    ELSE IF index > count - 1 THEN decoratedStacks[count - 1]
    ELSE decoratedStacks[index]

\* the group's getPanZoomStack: decoratedStacks[index]
getPanZoomStack(index) ==
    IF index \in DOMAIN decoratedStacks THEN decoratedStacks[index] ELSE NoWrapper

\* reads through a wrapper reach the stack that is its prototype
Wrapper_getOrigin(w) == Stack_getOrigin(stacks[w.proto])
Wrapper_getDimensions(w) == Stack_getDimensions(stacks[w.proto])
Wrapper_getDepth(w) == Stack_getDepth(stacks[w.proto])

\* result.pushPanZoom
Wrapper_pushPanZoom(w, stks, origin, dimensions) ==
    pushPanZoom(stks, origin, dimensions, w.index)

\* result.popPanZoom, mutated: not overridden, so the prototype's own pop runs
Wrapper_popPanZoom_inherited(w, stks) ==
    [stks EXCEPT ![w.proto] = Stack_popPanZoom(stks[w.proto])]

\* result.popPanZoom = popPanZoom
Wrapper_popPanZoom(w, stks) == popPanZoom(stks)

\* result.setBasePanZoom = setBasePanZoom
Wrapper_setBasePanZoom(w, stks, origin, dimensions) ==
    setBasePanZoom(stks, origin, dimensions)

\* result.clearPanZoom = clearPanZoom
Wrapper_clearPanZoom(w, stks) == clearPanZoom(stks)

\* the members of the object the constructor returns
Group_popPanZoom(stks) == popPanZoom(stks)
Group_setBasePanZoom(stks, origin, dimensions) == setBasePanZoom(stks, origin, dimensions)
Group_clearPanZoom(stks) == clearPanZoom(stks)

\* a call record: op, how it was issued ("wrapper" or "group"), the wrapper's
\* index (0 for the group object) and the arguments
Call(op, via, index, origin, dimensions) ==
    [op |-> op, via |-> via, index |-> index,
     origin |-> origin, dimensions |-> dimensions]

\* the objects a group-wide call can be issued on: each wrapper and the group
Callers ==
    {<<"wrapper", i>> : i \in 0..(count - 1)} \cup {<<"group", 0>>}

\* the call issued on caller c
PopVia(c, stks) ==
    IF c[1] = "wrapper" THEN Wrapper_popPanZoom(getPanZoomStack(c[2]), stks)
    ELSE Group_popPanZoom(stks)

SetBaseVia(c, stks, origin, dimensions) ==
    IF c[1] = "wrapper"
    THEN Wrapper_setBasePanZoom(getPanZoomStack(c[2]), stks, origin, dimensions)
    ELSE Group_setBasePanZoom(stks, origin, dimensions)

ClearVia(c, stks) ==
    IF c[1] = "wrapper" THEN Wrapper_clearPanZoom(getPanZoomStack(c[2]), stks)
    ELSE Group_clearPanZoom(stks)

\* the indices callers ask getPanZoomStack for: in range, one below, one above
GetIndices == (0 - 1)..count

\* no forEach is in progress
Idle == [active |-> FALSE, i |-> 0]

\* a call that returned a value (undefined for the mutators)
Returned(value) == [threw |-> FALSE, value |-> value]

Init ==
    /\ count \in 0..MaxCount
    /\ stacks = Construct(EmptyArray, count)
    /\ last = Call("new", "group", 0, <<>>, <<>>)
    /\ prev = Call("new", "group", 0, <<>>, <<>>)
    /\ pre = stacks
    /\ returned = Returned(NoWrapper)
    /\ run = Idle
    /\ subscriptions = <<>>
    /\ created = 0
    /\ unsubscribeCalls = [id \in 1..MaxSubscriptions |-> 0]
    /\ pending = 0
    /\ destroyed = FALSE

Record(call) ==
    /\ last' = call
    /\ prev' = last
    /\ pre' = stacks
    /\ UNCHANGED <<count, fixedVars>>

\* getPanZoomStack(index).pushPanZoom(origin, dimensions)
CallPush ==
    \E index \in 0..(count - 1), origin \in Origins, dimensions \in Dimensions :
        /\ getDepth < MaxDepth
        /\ stacks' = Wrapper_pushPanZoom(getPanZoomStack(index), stacks, origin, dimensions)
        /\ Record(Call("push", "wrapper", index, origin, dimensions))
        /\ returned' = Returned(NoWrapper)
        /\ UNCHANGED run

\* popPanZoom() on a wrapper or on the group
CallPop ==
    \E c \in Callers :
        /\ stacks' = PopVia(c, stacks)
        /\ Record(Call("pop", c[1], c[2], <<>>, <<>>))
        /\ returned' = Returned(NoWrapper)
        /\ UNCHANGED run

\* setBasePanZoom(origin, dimensions) on a wrapper or on the group
CallSetBase ==
    \E c \in Callers, origin \in Origins, dimensions \in Dimensions :
        /\ stacks' = SetBaseVia(c, stacks, origin, dimensions)
        /\ Record(Call("setBase", c[1], c[2], origin, dimensions))
        /\ returned' = Returned(NoWrapper)
        /\ UNCHANGED run

\* clearPanZoom() on a wrapper or on the group
CallClear ==
    \E c \in Callers :
        /\ stacks' = ClearVia(c, stacks)
        /\ Record(Call("clear", c[1], c[2], <<>>, <<>>))
        /\ returned' = Returned(NoWrapper)
        /\ UNCHANGED run

\* getPanZoomStack(index) on the group
CallGetPanZoomStack ==
    \E index \in GetIndices :
        /\ returned' = Returned(getPanZoomStack(index))
        /\ Record(Call("getPanZoomStack", "group", index, <<>>, <<>>))
        /\ UNCHANGED <<stacks, run>>

Next == CallPush \/ CallPop \/ CallSetBase \/ CallClear \/ CallGetPanZoomStack

Spec == Init /\ [][Next]_vars

----------------------------------------------------------------------------
(* The same calls, one forEach iteration at a time.  The functions contain  *)
(* no asynchronous step, so a call begins only when none is running.        *)

\* the callbacks handed to stacks.forEach
pushPanZoom_each(stack, i, origin, dimensions, index) ==
    IF i = index
    THEN Stack_pushPanZoom(stack, origin, dimensions)
    ELSE Stack_pushPanZoom(stack,
            <<At(origin, 0), At(Stack_getOrigin(stack), 1)>>,
            <<At(dimensions, 0), At(Stack_getDimensions(stack), 1)>>)

popPanZoom_each(stack) == Stack_popPanZoom(stack)

setBasePanZoom_each(stack, origin, dimensions) ==
    Stack_setBasePanZoom(stack, origin, dimensions)

clearPanZoom_each(stack) == Stack_clearPanZoom(stack)

\* the callback of the call in progress, applied to stacks[i]
ForEachBody(call, i, stack) ==
    CASE call.op = "push" ->
            pushPanZoom_each(stack, i, call.origin, call.dimensions,
                             getPanZoomStack(call.index).index)
      [] call.op = "pop" -> popPanZoom_each(stack)
      [] call.op = "setBase" -> setBasePanZoom_each(stack, call.origin, call.dimensions)
      [] call.op = "clear" -> clearPanZoom_each(stack)

\* forEach, mutated: the loop ends after the first element
ForEachDone_early(i, n) == i >= 1 \/ i >= n

\* forEach has visited every element
ForEachDone(i, n) == i >= n

Begin(call) ==
    /\ ~run.active
    /\ Record(call)
    /\ run' = [active |-> TRUE, i |-> 0]
    /\ UNCHANGED <<stacks, returned>>

BeginPush ==
    \E index \in 0..(count - 1), origin \in Origins, dimensions \in Dimensions :
        /\ getDepth < MaxDepth
        /\ Begin(Call("push", "wrapper", index, origin, dimensions))

BeginPop ==
    \E c \in Callers : Begin(Call("pop", c[1], c[2], <<>>, <<>>))

BeginSetBase ==
    \E c \in Callers, origin \in Origins, dimensions \in Dimensions :
        Begin(Call("setBase", c[1], c[2], origin, dimensions))

BeginClear ==
    \E c \in Callers : Begin(Call("clear", c[1], c[2], <<>>, <<>>))

\* one iteration of the forEach in progress
ForEachStep ==
    /\ run.active
    /\ ~ForEachDone(run.i, count)
    /\ stacks' = [stacks EXCEPT ![run.i] = ForEachBody(last, run.i, stacks[run.i])]
    /\ run' = [run EXCEPT !.i = run.i + 1]
    /\ UNCHANGED <<count, last, prev, pre, returned, fixedVars>>

\* the call in progress returns
Return ==
    /\ run.active
    /\ ForEachDone(run.i, count)
    /\ run' = Idle
    /\ returned' = Returned(NoWrapper)
    /\ UNCHANGED <<count, stacks, last, prev, pre, fixedVars>>

\* getPanZoomStack(index), between calls
ReadWrapper == ~run.active /\ CallGetPanZoomStack

NextSteps ==
    \/ BeginPush \/ BeginPop \/ BeginSetBase \/ BeginClear
    \/ ForEachStep \/ Return \/ ReadWrapper

SpecSteps == Init /\ [][NextSteps]_vars

----------------------------------------------------------------------------
(* FixedController: telemetry subscriptions.  openmct.telemetry.subscribe  *)
(* returns an unsubscribe function; the functions are numbered in the      *)
(* order they are handed out.                                              *)

groupVars == <<count, stacks, last, prev, pre, returned, run>>

\* subscriptions.forEach(function (unsubscribeFunc) { unsubscribeFunc(); })
InvokeAll(calls, subs) ==
    [id \in DOMAIN calls |->
        calls[id] + Cardinality({k \in DOMAIN subs : subs[k] = id})]

\* unsubscribe(): every held function is invoked and the list is emptied
unsubscribe ==
    /\ unsubscribeCalls' = InvokeAll(unsubscribeCalls, subscriptions)
    /\ subscriptions' = <<>>

\* subscribe(domainObject); telemetry tells whether the object can provide
\* telemetry itself
subscribe(telemetry) ==
    LET calls == IF Len(subscriptions) > 0
                 THEN InvokeAll(unsubscribeCalls, subscriptions)
                 ELSE unsubscribeCalls
        subs == IF Len(subscriptions) > 0 THEN <<>> ELSE subscriptions
    IN  /\ unsubscribeCalls' = calls
        /\ IF telemetry
           THEN /\ created < MaxSubscriptions
                /\ subscriptions' = <<created + 1>>
                /\ created' = created + 1
                /\ UNCHANGED pending
           ELSE /\ pending < MaxPending
                /\ subscriptions' = subs
                /\ pending' = pending + 1
                /\ UNCHANGED created

\* $scope.$watch("domainObject", subscribe)
WatchDomainObject ==
    /\ ~destroyed
    /\ \E telemetry \in BOOLEAN : subscribe(telemetry)
    /\ UNCHANGED <<destroyed, groupVars>>

\* $scope.$watch("model.composition", updateComposition)
updateComposition ==
    /\ ~destroyed
    /\ \E telemetry \in BOOLEAN : subscribe(telemetry)
    /\ UNCHANGED <<destroyed, groupVars>>

\* a composition load resolves: .then(filterForTelemetryObjects)
\* .then(subscribeToTelemetry), with n telemetry objects left by the filter
subscribeToTelemetry ==
    /\ pending > 0
    /\ \E n \in 0..MaxObjects :
          /\ created + n <= MaxSubscriptions
          /\ subscriptions' = [k \in 1..n |-> created + k]
          /\ created' = created + n
    /\ pending' = pending - 1
    /\ UNCHANGED <<unsubscribeCalls, destroyed, groupVars>>

\* $scope.$on("$destroy", unsubscribe)
Destroy ==
    /\ ~destroyed
    /\ unsubscribe
    /\ destroyed' = TRUE
    /\ UNCHANGED <<created, pending, groupVars>>

NextFixed == WatchDomainObject \/ updateComposition \/ subscribeToTelemetry \/ Destroy

SpecFixed == Init /\ [][NextFixed]_vars

----------------------------------------------------------------------------
(* Shapes *)

Indices == 0..(count - 1)

Top(stack) == stack[Len(stack)]

----------------------------------------------------------------------------
(* Properties *)

LastIs(op) == last.op = op

\* the range (second-axis) part of a stack's current view
RangeOf(stack) ==
    <<At(Stack_getOrigin(stack), 1), At(Stack_getDimensions(stack), 1)>>

\* the domain (first-axis) part of a stack's current view
DomainOf(stack) ==
    <<At(Stack_getOrigin(stack), 0), At(Stack_getDimensions(stack), 0)>>

\* C1: in a group of two or more stacks every stack has the same depth, and
\* the group's getDepth() is that depth.
EqualDepth ==
    count >= 2 =>
        /\ \A i \in Indices, j \in Indices :
              Stack_getDepth(stacks[i]) = Stack_getDepth(stacks[j])
        /\ \A i \in Indices : getDepth = Stack_getDepth(stacks[i])

\* a group of two whose stacks were pushed twice and then popped
EqualDepthCase ==
    /\ count >= 2
    /\ LastIs("pop")
    /\ prev.op = "push"
    /\ \A i \in Indices : Stack_getDepth(pre[i]) = 3 /\ Stack_getDepth(stacks[i]) = 2

\* C2: every stack always holds at least its base state.
FloorInvariant ==
    \A i \in Indices : Stack_getDepth(stacks[i]) >= 1

\* a pop was issued while the stacks held only their base state
FloorCase ==
    /\ count >= 1
    /\ LastIs("pop")
    /\ \A i \in Indices : Stack_getDepth(pre[i]) = 1 /\ Stack_getDepth(stacks[i]) = 1

\* C3: after a push on wrapper i, the top of every other stack has the
\* pushed origin[0] as its domain origin and the pushed dimensions[0] as its
\* domain dimension.
DomainPropagation ==
    LastIs("push") =>
        \A j \in Indices \ {last.index} :
            /\ At(Stack_getOrigin(stacks[j]), 0) = At(last.origin, 0)
            /\ At(Stack_getDimensions(stacks[j]), 0) = At(last.dimensions, 0)

\* a push whose domain differs from the one another stack showed before
DomainPropagationCase ==
    /\ LastIs("push")
    /\ \E j \in Indices \ {last.index} :
          /\ At(Stack_getOrigin(pre[j]), 0) # Undefined
          /\ At(Stack_getOrigin(pre[j]), 0) # At(last.origin, 0)

\* C4: after a push on wrapper i, every other stack reports the range origin
\* and range dimension its top reported before the push.
RangePreservation ==
    LastIs("push") =>
        \A j \in Indices \ {last.index} : RangeOf(stacks[j]) = RangeOf(pre[j])

\* a push whose range origin differs from the defined one another stack keeps
RangePreservationCase ==
    /\ LastIs("push")
    /\ \E j \in Indices \ {last.index} :
          /\ At(Stack_getOrigin(pre[j]), 1) # Undefined
          /\ At(Stack_getOrigin(pre[j]), 1) # At(last.origin, 1)
          /\ At(Stack_getOrigin(stacks[last.index]), 1) = At(last.origin, 1)

\* C5: after a push on wrapper i, the top of stack i is exactly the pushed
\* (origin, dimensions), and wrapper i reports them.
OriginatingPushExact ==
    LastIs("push") =>
        /\ Top(stacks[last.index]) = PanZoomState(last.origin, last.dimensions)
        /\ Wrapper_getOrigin(getPanZoomStack(last.index)) = last.origin
        /\ Wrapper_getDimensions(getPanZoomStack(last.index)) = last.dimensions

\* a push whose range differs from the one the originating stack showed
OriginatingPushCase ==
    /\ LastIs("push")
    /\ Stack_getDepth(pre[last.index]) >= 2
    /\ At(Stack_getOrigin(pre[last.index]), 1) # At(last.origin, 1)

\* C6: a push makes every stack one deeper and leaves the entries that were
\* there unchanged.
PushGrowsByOne ==
    LastIs("push") =>
        \A i \in Indices :
            /\ Stack_getDepth(stacks[i]) = Stack_getDepth(pre[i]) + 1
            /\ SubSeq(stacks[i], 1, Len(pre[i])) = pre[i]

\* a push onto stacks that already held a pushed state, in a group of two
PushGrowsCase ==
    /\ LastIs("push")
    /\ count >= 2
    /\ \A i \in Indices : Stack_getDepth(pre[i]) = 2 /\ Stack_getDepth(stacks[i]) = 3

\* C7: a pop that follows a push, from whichever caller, restores every
\* stack to what it was before the push; and a pop at depth above 1 makes
\* every stack exactly one shallower.
PopUndoesPush ==
    [][ /\ (LastIs("push") /\ last'.op = "pop") => stacks' = pre
        /\ (last'.op = "pop" /\ getDepth > 1) =>
              \A i \in Indices :
                  Stack_getDepth(stacks'[i]) = Stack_getDepth(stacks[i]) - 1 ]_vars

\* a pop, issued on another wrapper than the push before it, at depth 3
PopUndoesPushCase ==
    /\ LastIs("pop")
    /\ prev.op = "push"
    /\ last.via = "wrapper"
    /\ last.index # prev.index
    /\ \A i \in Indices : Stack_getDepth(pre[i]) = 3

\* C8: a pop or a clear issued while every stack is at depth 1 leaves the
\* whole group as it was.
FloorNoOp ==
    ((LastIs("pop") \/ LastIs("clear")) /\ \A i \in Indices : Stack_getDepth(pre[i]) = 1)
        => stacks = pre

\* a clear at depth 1 of a group whose base had been set
FloorNoOpCase ==
    /\ LastIs("clear")
    /\ count >= 2
    /\ \A i \in Indices : Stack_getDepth(pre[i]) = 1
    /\ Len(pre[0][1].origin) = 2

\* C9: after setBasePanZoom(origin, dimensions), from any caller, the base of
\* every stack is exactly (origin, dimensions).
SetBaseAll ==
    LastIs("setBase") =>
        \A i \in Indices : stacks[i][1] = PanZoomState(last.origin, last.dimensions)

\* a base with another range than every stack's previous base replaced it
SetBaseAllCase ==
    /\ LastIs("setBase")
    /\ count >= 2
    /\ \A i \in Indices :
          /\ Len(pre[i][1].origin) = 2
          /\ At(pre[i][1].origin, 1) # At(last.origin, 1)

\* C10: setBasePanZoom changes no depth and no entry above the base; above
\* depth 1 every wrapper reports the origin and dimensions it reported before.
SetBaseIsolation ==
    LastIs("setBase") =>
        \A i \in Indices :
            /\ Stack_getDepth(stacks[i]) = Stack_getDepth(pre[i])
            /\ \A k \in 2..Len(pre[i]) : stacks[i][k] = pre[i][k]
            /\ Stack_getDepth(pre[i]) > 1 =>
                  /\ Wrapper_getOrigin(getPanZoomStack(i)) = Stack_getOrigin(pre[i])
                  /\ Wrapper_getDimensions(getPanZoomStack(i)) = Stack_getDimensions(pre[i])

\* the base was replaced under two pushed states
SetBaseIsolationCase ==
    /\ LastIs("setBase")
    /\ count >= 2
    /\ \A i \in Indices : Stack_getDepth(pre[i]) = 3
    /\ stacks[0][1] # pre[0][1]

\* C11: setBasePanZoom(o, d) followed by clearPanZoom leaves every stack at
\* depth 1 with (o, d) as its only state, and every wrapper reports o and d.
RebaseThenReset ==
    (prev.op = "setBase" /\ LastIs("clear")) =>
        \A i \in Indices :
            /\ stacks[i] = <<PanZoomState(prev.origin, prev.dimensions)>>
            /\ Wrapper_getOrigin(getPanZoomStack(i)) = prev.origin
            /\ Wrapper_getDimensions(getPanZoomStack(i)) = prev.dimensions

\* the base was replaced under two pushed states, then the group was cleared
RebaseThenResetCase ==
    /\ prev.op = "setBase"
    /\ LastIs("clear")
    /\ count >= 2
    /\ \A i \in Indices : Stack_getDepth(pre[i]) = 3 /\ Stack_getDepth(stacks[i]) = 1

\* the depth getDepth reports for a given stacks array
DepthOf(stks) == IF DOMAIN stks # {} THEN Stack_getDepth(stks[0]) ELSE 0

\* the group-wide pop, repeated until the depth is 1
RECURSIVE PopUntilBase(_)
PopUntilBase(stks) ==
    IF DepthOf(stks) > 1 THEN PopUntilBase(Group_popPanZoom(stks)) ELSE stks

\* C12: clearPanZoom leaves every stack at depth 1 holding its base
\* unchanged, which is the state repeated group-wide pops end in.
ClearIsPopToBase ==
    LastIs("clear") =>
        /\ \A i \in Indices : stacks[i] = <<pre[i][1]>>
        /\ stacks = PopUntilBase(pre)

\* a clear, issued on a wrapper, of stacks that held two pushed states
ClearIsPopToBaseCase ==
    /\ LastIs("clear")
    /\ last.via = "wrapper"
    /\ count >= 2
    /\ \A i \in Indices : Stack_getDepth(pre[i]) = 3
    /\ Top(pre[0]) # pre[0][1]

\* C13: a second clearPanZoom in a row changes nothing.
ClearIdempotent ==
    (prev.op = "clear" /\ LastIs("clear")) =>
        /\ stacks = pre
        /\ \A i \in Indices : Stack_getDepth(stacks[i]) = 1

\* two clears in a row of a group of two whose base had been set
ClearIdempotentCase ==
    /\ prev.op = "clear"
    /\ LastIs("clear")
    /\ count >= 2
    /\ Len(stacks[0][1].origin) = 2

OutOfRange(index) == ~(0 <= index /\ index < count)

\* C14 as stated: getPanZoomStack with an index outside 0 <= index < count
\* signals an out-of-bounds error.
OutOfRangeSignalsError ==
    (LastIs("getPanZoomStack") /\ OutOfRange(last.index)) => returned.threw

\* C14, amended: getPanZoomStack with an index outside 0 <= index < count
\* returns undefined, without an error and without clamping, and leaves the
\* group state unchanged.
OutOfRangeReturnsUndefined ==
    (LastIs("getPanZoomStack") /\ OutOfRange(last.index)) =>
        /\ ~returned.threw
        /\ returned.value = NoWrapper
        /\ stacks = pre

\* getPanZoomStack(count) was asked of a group that has stacks
OutOfRangeCase ==
    /\ LastIs("getPanZoomStack")
    /\ count >= 1
    /\ last.index = count
    /\ getDepth >= 2

\* C15: a group constructed with count = 0 has no stack and reports depth 0
\* in every state, and its popPanZoom, setBasePanZoom and clearPanZoom return
\* without error.
EmptyGroup ==
    count = 0 =>
        /\ getDepth = 0
        /\ DOMAIN stacks = {}
        /\ ~returned.threw

\* the empty group was cleared or popped and then given a base
EmptyGroupCase ==
    /\ count = 0
    /\ LastIs("setBase")
    /\ prev.op \in {"pop", "clear"}

\* C16 as stated: a new group of count n holds n stacks of depth 1 whose base
\* state is origin = [0,0], dimensions = [0,0].
InitialBaseZero ==
    LastIs("new") =>
        /\ DOMAIN stacks = Indices
        /\ \A i \in Indices : stacks[i] = <<PanZoomState(<<0, 0>>, <<0, 0>>)>>

\* C16, amended: a new group of count n holds n stacks of depth 1 whose base
\* state is origin = [], dimensions = []: every wrapper's origin and
\* dimensions have undefined domain and range components.
InitialBaseEmpty ==
    LastIs("new") =>
        /\ DOMAIN stacks = Indices
        /\ \A i \in Indices :
              /\ Stack_getDepth(stacks[i]) = 1
              /\ stacks[i][1] = PanZoomState(<<>>, <<>>)
              /\ DomainOf(stacks[i]) = <<Undefined, Undefined>>
              /\ RangeOf(stacks[i]) = <<Undefined, Undefined>>
              /\ Wrapper_getOrigin(getPanZoomStack(i)) = <<>>
              /\ Wrapper_getDimensions(getPanZoomStack(i)) = <<>>

\* a group of two, just constructed
InitialBaseCase ==
    /\ LastIs("new")
    /\ count = 2
    /\ Cardinality(DOMAIN stacks) = 2

\* C17: the domain origin and the domain dimension of the current state are
\* the same in every stack of the group.
DomainAgreement ==
    \A i \in Indices, j \in Indices : DomainOf(stacks[i]) = DomainOf(stacks[j])

\* a pop exposed pushed states whose ranges differ between two stacks
DomainAgreementCase ==
    /\ count >= 2
    /\ LastIs("pop")
    /\ \A i \in Indices : Stack_getDepth(stacks[i]) = 2
    /\ DomainOf(stacks[0]) # <<Undefined, Undefined>>
    /\ DomainOf(stacks[0]) # DomainOf(pre[0])
    /\ RangeOf(stacks[0]) # RangeOf(stacks[1])

\* C18: the wrapper getPanZoomStack(i) returns reads the origin, dimensions
\* and depth of stack i, and keeps nothing but its prototype and its index.
WrapperReadsDelegate ==
    \A i \in Indices :
        /\ getPanZoomStack(i).proto = i
        /\ Wrapper_getOrigin(getPanZoomStack(i)) = Stack_getOrigin(stacks[i])
        /\ Wrapper_getDimensions(getPanZoomStack(i)) = Stack_getDimensions(stacks[i])
        /\ Wrapper_getDepth(getPanZoomStack(i)) = Stack_getDepth(stacks[i])
        /\ DOMAIN getPanZoomStack(i) = {"proto", "index"}

\* the second wrapper was fetched while the two stacks showed different views
WrapperReadsCase ==
    /\ count >= 2
    /\ LastIs("getPanZoomStack")
    /\ last.index = 1
    /\ returned.value = decorateStack(1, 1)
    /\ Stack_getOrigin(stacks[0]) # Stack_getOrigin(stacks[1])

\* C19: popPanZoom, setBasePanZoom and clearPanZoom have the same effect
\* whichever wrapper they are issued on, and the same as on the group object;
\* the effect of pushPanZoom depends on the wrapper it is issued on.
CallerIndependence ==
    /\ \A c \in Callers :
          /\ PopVia(c, stacks) = Group_popPanZoom(stacks)
          /\ ClearVia(c, stacks) = Group_clearPanZoom(stacks)
          /\ \A origin \in Origins, dimensions \in Dimensions :
                SetBaseVia(c, stacks, origin, dimensions)
                    = Group_setBasePanZoom(stacks, origin, dimensions)
    /\ LastIs("pop") => stacks = Group_popPanZoom(pre)
    /\ LastIs("clear") => stacks = Group_clearPanZoom(pre)
    /\ LastIs("setBase") => stacks = Group_setBasePanZoom(pre, last.origin, last.dimensions)
    /\ count >= 2 =>
          \E origin \in Origins, dimensions \in Dimensions :
              Wrapper_pushPanZoom(getPanZoomStack(0), stacks, origin, dimensions)
                  # Wrapper_pushPanZoom(getPanZoomStack(1), stacks, origin, dimensions)

\* a pop issued on the second wrapper, of stacks with different views
CallerIndependenceCase ==
    /\ count >= 2
    /\ LastIs("pop")
    /\ last.via = "wrapper"
    /\ last.index = 1
    /\ Stack_getDepth(pre[0]) = 3
    /\ Stack_getOrigin(pre[0]) # Stack_getOrigin(pre[1])

\* what the last call makes of `pre` when applied to all stacks at once
WholeEffect ==
    CASE LastIs("push") -> pushPanZoom(pre, last.origin, last.dimensions, last.index)
      [] LastIs("pop") -> popPanZoom(pre)
      [] LastIs("setBase") -> setBasePanZoom(pre, last.origin, last.dimensions)
      [] LastIs("clear") -> clearPanZoom(pre)
      [] OTHER -> pre

\* C20: while a call is updating the stacks no other call or read can begin;
\* whenever one can, every stack reflects the last call in full (depths are
\* equal), and after a push each other stack's range is the one its own top
\* had when the push began.
AtomicFanOut ==
    /\ run.active =>
          ~ENABLED (BeginPush \/ BeginPop \/ BeginSetBase \/ BeginClear \/ ReadWrapper)
    /\ ~run.active =>
          /\ stacks = WholeEffect
          /\ \A i \in Indices, j \in Indices :
                Stack_getDepth(stacks[i]) = Stack_getDepth(stacks[j])
          /\ LastIs("push") =>
                \A j \in Indices \ {last.index} : RangeOf(stacks[j]) = RangeOf(pre[j])

\* a push on the first wrapper has returned: the second stack, visited after
\* the first was pushed, kept a range that differs from the pushed one
AtomicFanOutCase ==
    /\ ~run.active
    /\ returned = Returned(NoWrapper)
    /\ LastIs("push")
    /\ last.index = 0
    /\ count >= 2
    /\ Stack_getDepth(stacks[1]) = 3
    /\ At(Stack_getOrigin(pre[1]), 1) # Undefined
    /\ RangeOf(stacks[1]) # RangeOf(stacks[0])

\* a push in progress: the first stack is pushed, the second not yet
MidFanOut ==
    /\ run.active
    /\ LastIs("push")
    /\ count >= 2
    /\ Stack_getDepth(stacks[0]) # Stack_getDepth(stacks[1])

\* C21: the base (index 0) state is the same in every stack of the group, so
\* at depth 1 every wrapper reports the same origin and the same dimensions,
\* range axis included.
IdenticalBase ==
    \A i \in Indices, j \in Indices :
        /\ stacks[i][1] = stacks[j][1]
        /\ (Stack_getDepth(stacks[i]) = 1 /\ Stack_getDepth(stacks[j]) = 1) =>
              /\ Wrapper_getOrigin(getPanZoomStack(i)) = Wrapper_getOrigin(getPanZoomStack(j))
              /\ Wrapper_getDimensions(getPanZoomStack(i))
                    = Wrapper_getDimensions(getPanZoomStack(j))

\* a clear took two stacks, whose pushed ranges differed, back to a set base
IdenticalBaseCase ==
    /\ count >= 2
    /\ LastIs("clear")
    /\ Stack_getDepth(pre[0]) >= 2
    /\ RangeOf(pre[0]) # RangeOf(pre[1])
    /\ Len(stacks[0][1].origin) = 2
    /\ Stack_getDepth(stacks[0]) = 1

\* the subscriptions the telemetry API still delivers to
Active == {id \in 1..created : unsubscribeCalls[id] = 0}

\* the unsubscribe functions in the controller's list
Held == {subscriptions[k] : k \in DOMAIN subscriptions}

\* C22: every subscription the controller created is held in its list or
\* already unsubscribed, no unsubscribe function is invoked twice, and after
\* $destroy no subscription of the controller is active.
SubscriptionsFreed ==
    /\ \A id \in 1..created : id \in Held \/ id \notin Active
    /\ \A id \in 1..created : unsubscribeCalls[id] <= 1
    /\ destroyed => Active = {}

\* what the list handling does keep: no unsubscribe function is invoked twice
UnsubscribeAtMostOnce ==
    \A id \in DOMAIN unsubscribeCalls : unsubscribeCalls[id] <= 1

\* a subscription is active and not in the controller's list
Leaked == \E id \in Active : id \notin Held

\* a subscription is active after $destroy
ActiveAfterDestroy == destroyed /\ Active # {}

====
